---- MODULE Spec2Model ----
(***************************************************************************)
(* A model of the OpenAPI documentation generator of                       *)
(* src/Node/Express/Configurations/DocumnetationGenerator.ts: the schema   *)
(* registry `schemas`, the path table `paths`, addZodSchema,               *)
(* generateParamDocFromSchema, addDocRoute, buildOpenApiDoc and            *)
(* createOpenApiFile with the file it writes.                              *)
(*                                                                         *)
(* `paths` is an object literal, so the model also carries the part of     *)
(* Object.prototype that a lookup of a path key can reach, and what a      *)
(* property set there does to the conversions of object schemas.           *)
(*                                                                         *)
(* A Zod schema is abstracted to what the generator reads of it: whether   *)
(* it is a ZodObject, its shape (ordered fields), and whether createSchema *)
(* yields components for it.  Strings that the code builds (schema names,  *)
(* $ref values) are built the same way here; route paths are sequences of  *)
(* one-character strings so that the regular-expression substitution is    *)
(* computed, not assumed.                                                  *)
(***************************************************************************)
EXTENDS Integers, Sequences, FiniteSets, TLC

VARIABLES
    schemas,    \* const schemas: Record<string, any>     (line 61)
    paths,      \* const paths: Record<string, any>       (line 62)
    errArrays,  \* the callers' `errors` arrays that several descriptors share
    doc,        \* the document last returned by a buildOpenApiDoc call
    NODE_ENV,   \* the environment flag imported from the configuration
    file,       \* the content of ../../openapi.json
    last,       \* the last call made that registers, extracts, translates or
                \* builds: its arguments and what it returned
    calls,      \* number of registration calls made
    builds,     \* number of buildOpenApiDoc calls made
    ended,      \* a write of the file raised out of the module (a TypeError
                \* of a registration or of a build is kept in last.threw)
    compiledFrom, \* for each pair registered by a call that returned, the
                \* descriptor of the latest such call (kept for the properties)
    objectPrototype \* Object.prototype: the properties `paths` inherits

vars == <<schemas, paths, errArrays, doc, NODE_ENV, file, last, calls, builds,
          ended, compiledFrom, objectPrototype>>

\* ------------------------------------------------------------------ bounds
MaxCalls == 2
MaxBuilds == 2
MaxLen == 4

\* ------------------------------------------------------------- small helpers
Range(s) == {s[i] : i \in 1..Len(s)}

Put(f, k, v) == [x \in (DOMAIN f) \cup {k} |-> IF x = k THEN v ELSE f[x]]

\* ------------------------------------------------------- Object.prototype
\* `paths` is a plain object literal: a key it does not own is looked up on
\* Object.prototype.  ProtoName is the accessor __proto__, whose value is
\* Object.prototype itself; FunctionNames are the methods of Object.prototype
ProtoName == <<"_", "_", "p", "r", "o", "t", "o", "_", "_">>

FunctionNames ==
    {<<"c", "o", "n", "s", "t", "r", "u", "c", "t", "o", "r">>,
     <<"h", "a", "s", "O", "w", "n", "P", "r", "o", "p", "e", "r", "t",
       "y">>,
     <<"i", "s", "P", "r", "o", "t", "o", "t", "y", "p", "e", "O", "f">>,
     <<"p", "r", "o", "p", "e", "r", "t", "y", "I", "s", "E", "n", "u",
       "m", "e", "r", "a", "b", "l", "e">>,
     <<"t", "o", "L", "o", "c", "a", "l", "e", "S", "t", "r", "i", "n",
       "g">>,
     <<"t", "o", "S", "t", "r", "i", "n", "g">>,
     <<"v", "a", "l", "u", "e", "O", "f">>,
     <<"_", "_", "d", "e", "f", "i", "n", "e", "G", "e", "t", "t", "e",
       "r", "_", "_">>,
     <<"_", "_", "d", "e", "f", "i", "n", "e", "S", "e", "t", "t", "e",
       "r", "_", "_">>,
     <<"_", "_", "l", "o", "o", "k", "u", "p", "G", "e", "t", "t", "e",
       "r", "_", "_">>,
     <<"_", "_", "l", "o", "o", "k", "u", "p", "S", "e", "t", "t", "e",
       "r", "_", "_">>}

\* a method name as a property key spelled in characters
MethodChars(method) ==
    CASE method = "get" -> <<"g", "e", "t">>
      [] method = "post" -> <<"p", "o", "s", "t">>
      [] method = "put" -> <<"p", "u", "t">>
      [] method = "patch" -> <<"p", "a", "t", "c", "h">>
      [] method = "delete" -> <<"d", "e", "l", "e", "t", "e">>

\* Object.prototype when the module is loaded: each property a lookup finds
\* there, with the properties this module has set on its value (none yet)
ObjectPrototype == [n \in FunctionNames |-> <<>>]

\* the keys the module has set on Object.prototype: the operation of a route
\* __proto__ is stored there under its method (line 259).  A property set by
\* assignment is enumerable, so a `for ... in` over any object meets it
InheritedKeys(proto) == DOMAIN proto \ FunctionNames

\* ------------------------------------------------- shared constants (imports)
\* the enumeration of the error kinds: the two kinds addDocRoute names, a
\* kind that callers declare, and two kinds the status table has no entry for
ErrorName ==
    {"UNAUTHORIZED", "VALIDATION_ERROR", "NOT_FOUND", "TIMEOUT_ERROR",
     "UNKNOWN_ERROR"}

ErrorNameValues ==
    <<"UNAUTHORIZED", "VALIDATION_ERROR", "NOT_FOUND", "TIMEOUT_ERROR",
      "UNKNOWN_ERROR">>

\* the status table: a status for some kinds, no entry for the others
errorStatusMap ==
    [e \in ErrorName \ {"TIMEOUT_ERROR", "UNKNOWN_ERROR"} |->
        CASE e = "UNAUTHORIZED" -> 401
          [] e = "VALIDATION_ERROR" -> 400
          [] e = "NOT_FOUND" -> 404]

\* errorStatusMap[err] ?? 500
ErrorStatus(err) ==
    IF err \in DOMAIN errorStatusMap THEN errorStatusMap[err] ELSE 500

\* ------------------------------------------------------------- Zod schemas
Field(n, t) == [name |-> n, type |-> t, example |-> ""]

ZodObject(shape, hasRef) ==
    [kind |-> "object", shape |-> shape, hasRef |-> hasRef, description |-> ""]

ZodString(hasRef) ==
    [kind |-> "string", shape |-> <<>>, hasRef |-> hasRef, description |-> ""]

Undefined ==
    [kind |-> "undefined", shape |-> <<>>, hasRef |-> FALSE, description |-> ""]

FieldNames(shape) == {shape[i].name : i \in 1..Len(shape)}

FieldOf(shape, k) == shape[CHOOSE i \in 1..Len(shape) : shape[i].name = k]

\* the structural description of one field
FieldSchema(f) ==
    IF f.example = "" THEN [type |-> f.type]
    ELSE [type |-> f.type, example |-> f.example]

\* the structural description of a schema: an object has a field map
\* (`properties`), anything else has none
Structure(z) ==
    IF z.kind = "object"
    THEN [type |-> "object",
          description |-> z.description,
          properties |-> [k \in FieldNames(z.shape) |->
                              FieldSchema(FieldOf(z.shape, k))]]
    ELSE [type |-> z.kind, description |-> z.description]

\* createSchema (zod-openapi): the components of the conversion, in order;
\* <<>> when the conversion yields no components
createSchema(z) ==
    [schema |-> Structure(z),
     components |-> IF z.hasRef THEN <<Structure(z)>> ELSE <<>>]

\* createSchema raises (line 72).  The conversion walks the shape of a
\* ZodObject with `for ... in`; once Object.prototype has an enumerable key
\* the walk meets it, takes the operation stored there for the schema of a
\* field, and reading that schema's definition raises a TypeError, whatever
\* the method the key names and whether or not the object yields components.
\* A schema that is no object has no shape to walk, and converts
ConversionRaises(z, proto) ==
    z.kind = "object" /\ InheritedKeys(proto) # {}

\* ------------------------------------------------------------ addZodSchema
FileProperty(ff) ==
    IF ff.type = "array"
    THEN [type |-> "array", required |-> ff.required,
          description |-> ff.description,
          items |-> [type |-> "string", format |-> "binary"]]
    ELSE [type |-> "binary", required |-> ff.required,
          description |-> ff.description]

\* the name of the accessor that sets the prototype of a plain object
ProtoField == "__proto__"

\* for (const fileField of fileFields) objectSchema.properties[name] = ...
\* `properties` is a plain object: the assignment to the key __proto__ sets
\* its prototype and gives it no field of that name
RECURSIVE InjectFileFields(_, _)
InjectFileFields(objectSchema, fileFields) ==
    IF fileFields = <<>> THEN objectSchema
    ELSE InjectFileFields(
            IF Head(fileFields).name = ProtoField THEN objectSchema
            ELSE [objectSchema EXCEPT !.properties =
                     Put(@, Head(fileFields).name,
                         FileProperty(Head(fileFields)))],
            Tail(fileFields))

\* addZodSchema with `schemas[name] ??= objectSchema`: a name keeps its entry
addZodSchema_KeepsExisting(reg, name, schema, fileFields, proto) ==
    IF ConversionRaises(schema, proto)
    THEN [threw |-> TRUE, ret |-> FALSE, schemas |-> reg]
    ELSE
    LET openApiSchema == createSchema(schema)
    IN  IF openApiSchema.components # <<>>
        THEN LET objectSchema == openApiSchema.components[1]
             IN  IF fileFields # <<>> /\ "properties" \notin DOMAIN objectSchema
                 THEN [threw |-> TRUE, ret |-> FALSE, schemas |-> reg]
                 ELSE [threw |-> FALSE, ret |-> TRUE,
                       schemas |-> IF name \in DOMAIN reg THEN reg
                                   ELSE Put(reg, name,
                                            InjectFileFields(objectSchema,
                                                             fileFields))]
        ELSE [threw |-> FALSE, ret |-> FALSE, schemas |-> reg]

\* threw: the call raised a TypeError (the conversion of line 72, or a file
\* field assigned into a structure that has no `properties`); ret: the
\* boolean returned otherwise
addZodSchema(reg, name, schema, fileFields, proto) ==
    IF ConversionRaises(schema, proto)
    THEN [threw |-> TRUE, ret |-> FALSE, schemas |-> reg]
    ELSE
    LET openApiSchema == createSchema(schema)
    IN  IF openApiSchema.components # <<>>
        THEN LET objectSchema == openApiSchema.components[1]
             IN  IF fileFields # <<>> /\ "properties" \notin DOMAIN objectSchema
                 THEN [threw |-> TRUE, ret |-> FALSE, schemas |-> reg]
                 ELSE [threw |-> FALSE, ret |-> TRUE,
                       schemas |-> Put(reg, name,
                                       InjectFileFields(objectSchema, fileFields))]
        ELSE [threw |-> FALSE, ret |-> FALSE, schemas |-> reg]

\* ---------------------------------------------- generateParamDocFromSchema
\* ParamOf with `required: optionalParams.includes(k)`
ParamOf_RequiredInverted(f, loc, optionalParams) ==
    [name |-> f.name,
     in |-> loc,
     required |-> f.name \in Range(optionalParams),
     schema |-> [schema |-> FieldSchema(f), components |-> <<>>]]

ParamOf(f, loc, optionalParams) ==
    [name |-> f.name,
     in |-> loc,
     required |-> IF f.name \in Range(optionalParams) THEN FALSE ELSE TRUE,
     schema |-> [schema |-> FieldSchema(f), components |-> <<>>]]

\* generateParamDocFromSchema testing `schema instanceof z.ZodObject` before
\* it registers the schema
generateParamDocFromSchema_ObjectsOnly(reg, name, schema, loc, optionalParams, proto) ==
    IF name = "" \/ schema = Undefined \/ schema.kind # "object"
    THEN [threw |-> FALSE, params |-> <<>>, schemas |-> reg]
    ELSE LET added == addZodSchema(reg, name, schema, <<>>, proto)
         IN  IF ~added.ret
             THEN [threw |-> added.threw, params |-> <<>>,
                   schemas |-> added.schemas]
             ELSE [threw |-> FALSE,
                   params |->
                       [i \in 1..Len(schema.shape) |->
                            ParamOf(schema.shape[i], loc, optionalParams)],
                   schemas |-> added.schemas]

\* threw: the registration of line 108 raised, and the call returned nothing
generateParamDocFromSchema(reg, name, schema, loc, optionalParams, proto) ==
    IF name = "" \/ schema = Undefined
    THEN [threw |-> FALSE, params |-> <<>>, schemas |-> reg]
    ELSE LET added == addZodSchema(reg, name, schema, <<>>, proto)
         IN  IF ~added.ret
             THEN [threw |-> added.threw, params |-> <<>>,
                   schemas |-> added.schemas]
             ELSE [threw |-> FALSE,
                   params |->
                       IF schema.kind = "object"
                       THEN [i \in 1..Len(schema.shape) |->
                                ParamOf(schema.shape[i], loc, optionalParams)]
                       ELSE <<>>,
                   schemas |-> added.schemas]

\* ------------------------------------------------ expressRouteToOpenApiRoute
\* the character class [A-Za-z0-9_]
WordChars ==
    {"a", "b", "c", "d", "e", "f", "g", "h", "i", "j", "k", "l", "m",
     "n", "o", "p", "q", "r", "s", "t", "u", "v", "w", "x", "y", "z"}
    \cup {"A", "B", "C", "D", "E", "F", "G", "H", "I", "J", "K", "L", "M",
          "N", "O", "P", "Q", "R", "S", "T", "U", "V", "W", "X", "Y", "Z"}
    \cup {"0", "1", "2", "3", "4", "5", "6", "7", "8", "9"}
    \cup {"_"}

\* the length of the longest run of [A-Za-z0-9_] that starts at position i
RECURSIVE WordRun(_, _)
WordRun(p, i) ==
    IF i <= Len(p) /\ p[i] \in WordChars THEN 1 + WordRun(p, i + 1) ELSE 0

\* p.replace(/:([A-Za-z0-9_]+)/g, '{$1}'), scanning from position i
RECURSIVE ReplaceFrom(_, _)
ReplaceFrom(p, i) ==
    IF i > Len(p) THEN <<>>
    ELSE IF p[i] = ":" /\ WordRun(p, i + 1) > 0
         THEN <<"{">> \o SubSeq(p, i + 1, i + WordRun(p, i + 1)) \o <<"}">>
              \o ReplaceFrom(p, i + 1 + WordRun(p, i + 1))
         ELSE <<p[i]>> \o ReplaceFrom(p, i + 1)

\* the substitution without the g flag: only the first token is replaced
RECURSIVE ReplaceFirstFrom(_, _)
ReplaceFirstFrom(p, i) ==
    IF i > Len(p) THEN <<>>
    ELSE IF p[i] = ":" /\ WordRun(p, i + 1) > 0
         THEN <<"{">> \o SubSeq(p, i + 1, i + WordRun(p, i + 1)) \o <<"}">>
              \o SubSeq(p, i + 1 + WordRun(p, i + 1), Len(p))
         ELSE <<p[i]>> \o ReplaceFirstFrom(p, i + 1)

expressRouteToOpenApiRoute_FirstOnly(p) == ReplaceFirstFrom(p, 1)

expressRouteToOpenApiRoute(p) == ReplaceFrom(p, 1)

\* ------------------------------------------------------------- addDocRoute
VALIDATION_ERROR == "VALIDATION_ERROR"

UNAUTHORIZED == "UNAUTHORIZED"

SchemaRef(name) == [ref |-> "#/components/schemas/" \o name]

\* if (!errors.includes(e)) errors.push(e)
PushOnce(errors, e) == IF e \in Range(errors) THEN errors ELSE Append(errors, e)

\* let { errors = [] } = params: the caller's array itself when one is given
ErrorsOf(d, arrays) ==
    CASE d.errors.kind = "undefined" -> <<>>
      [] d.errors.kind = "literal" -> d.errors.val
      [] d.errors.kind = "shared" -> arrays[d.errors.id]

\* Object.entries(responses): integer keys in ascending order
RECURSIVE Ascending(_)
Ascending(S) ==
    IF S = {} THEN <<>>
    ELSE LET m == CHOOSE x \in S : \A y \in S : x <= y
         IN  <<m>> \o Ascending(S \ {m})

\* ResponseStep without the `...cookiesOpenApi` spread: no Set-Cookie header
ResponseStep_NoCookies(st, name, statusCode, r, proto) ==
    IF r.schema # Undefined
    THEN LET schemaName == name \o ":response" \o ToString(statusCode)
             added == addZodSchema(st.schemas, schemaName, r.schema, <<>>,
                                   proto)
             contentType == IF r.contentType = "undefined"
                            THEN "application/json" ELSE r.contentType
         IN  IF added.ret
             THEN [schemas |-> added.schemas,
                   responses |-> Put(st.responses, statusCode,
                       [description |-> r.description]
                       @@ [content |-> (contentType :>
                                          [schema |-> SchemaRef(schemaName)])])]
             ELSE [schemas |-> added.schemas, responses |-> st.responses]
    ELSE [schemas |-> st.schemas,
          responses |-> Put(st.responses, statusCode,
                            [description |-> r.description])]

\* one iteration of the loop over the declared responses (lines 207-244) that
\* runs to its end
ResponseStep(st, name, statusCode, r, proto) ==
    IF r.schema # Undefined
    THEN LET schemaName == name \o ":response" \o ToString(statusCode)
             added == addZodSchema(st.schemas, schemaName, r.schema, <<>>,
                                   proto)
             contentType == IF r.contentType = "undefined"
                            THEN "application/json" ELSE r.contentType
             cookiesOpenApi ==
                 IF r.cookies # ""
                 THEN [headers |-> [SetCookie |->
                          [description |-> r.cookies,
                           schema |-> [type |-> "string"]]]]
                 ELSE <<>>
         IN  IF added.ret
             THEN [schemas |-> added.schemas,
                   responses |-> Put(st.responses, statusCode,
                       [description |-> r.description]
                       @@ cookiesOpenApi
                       @@ [content |-> (contentType :>
                                          [schema |-> SchemaRef(schemaName)])])]
             ELSE [schemas |-> added.schemas, responses |-> st.responses]
    ELSE [schemas |-> st.schemas,
          responses |-> Put(st.responses, statusCode,
                            [description |-> r.description])]

\* the registration of the schema of a response raises (line 212 into line 72)
ResponseRaises(r, proto) ==
    /\ r.schema # Undefined
    /\ addZodSchema(<<>>, "", r.schema, <<>>, proto).threw

\* the loop ends at an iteration that raises, with what the iterations before
\* it have done
RECURSIVE ResponsesLoop(_, _, _, _, _)
ResponsesLoop(st, name, responses, codes, proto) ==
    IF codes = <<>> THEN st
    ELSE IF ResponseRaises(responses[Head(codes)], proto) THEN st
    ELSE ResponsesLoop(ResponseStep(st, name, Head(codes),
                                    responses[Head(codes)], proto),
                       name, responses, Tail(codes), proto)

\* ErrorStep with `op.responses[status] ??= ...`: a status keeps its response
ErrorStep_KeepsExisting(responses, err) ==
    IF ErrorStatus(err) \in DOMAIN responses THEN responses
    ELSE Put(responses, ErrorStatus(err),
             [description |-> err,
              content |-> ("application/json" :> [schema |-> SchemaRef(err)])])

\* one iteration of the loop over the errors (lines 246-256)
ErrorStep(responses, err) ==
    Put(responses, ErrorStatus(err),
        [description |-> err,
         content |-> ("application/json" :> [schema |-> SchemaRef(err)])])

RECURSIVE ErrorsLoop(_, _)
ErrorsLoop(responses, errors) ==
    IF errors = <<>> THEN responses
    ELSE ErrorsLoop(ErrorStep(responses, Head(errors)), Tail(errors))

\* AuthErrors testing for 'admin' instead of "not 'none'"
AuthErrors_AdminOnly(d, errors) ==
    IF d.authenticatedUser = "admin" THEN PushOnce(errors, UNAUTHORIZED) ELSE errors

\* lines 138-143
AuthErrors(d, errors) ==
    IF d.authenticatedUser # "none" THEN PushOnce(errors, UNAUTHORIZED) ELSE errors

AuthSecurity(d) ==
    IF d.authenticatedUser # "none"
    THEN [security |-> <<[bearerAuth |-> <<>>]>>]
    ELSE <<>>

\* ParamErrors without the `!errors.includes(...)` test
ParamErrors_Unchecked(errors, params) ==
    IF Len(params) > 0 THEN Append(errors, VALIDATION_ERROR) ELSE errors

\* lines 151-156, 165-170, 179-184
ParamErrors(errors, params) ==
    IF Len(params) > 0 THEN PushOnce(errors, VALIDATION_ERROR) ELSE errors

\* BodyAdded without the third argument: the file fields are not passed
BodyAdded_NoFileFields(d, reg, proto) ==
    IF d.body # Undefined
    THEN addZodSchema(reg, d.name \o ":body", d.body, <<>>, proto)
    ELSE [threw |-> FALSE, ret |-> FALSE, schemas |-> reg]

\* lines 186-191
BodyAdded(d, reg, proto) ==
    IF d.body # Undefined
    THEN addZodSchema(reg, d.name \o ":body", d.body, d.fileFields, proto)
    ELSE [threw |-> FALSE, ret |-> FALSE, schemas |-> reg]

\* lines 192-204
BodyErrors(errors, added) ==
    IF added.ret THEN PushOnce(errors, VALIDATION_ERROR) ELSE errors

\* RequestBody without the `if (addedSchema)` test
RequestBody_Unchecked(d, added) ==
    IF d.body # Undefined
    THEN [requestBody |->
            [required |-> TRUE,
             content |->
                ((IF d.contentType = "undefined" THEN "application/json"
                  ELSE d.contentType)
                 :> [schema |-> SchemaRef(d.name \o ":body")])]]
    ELSE <<>>

RequestBody(d, added) ==
    IF added.ret
    THEN [requestBody |->
            [required |-> TRUE,
             content |->
                ((IF d.contentType = "undefined" THEN "application/json"
                  ELSE d.contentType)
                 :> [schema |-> SchemaRef(d.name \o ":body")])]]
    ELSE <<>>

\* What a call of addDocRoute has done so far: the registry, the errors
\* array, the parameters extracted, the request body and the responses of the
\* operation under construction; threw when a registration raised.  Nothing
\* after a registration that raised runs, and what ran before it stays (the
\* schemas stored, the kinds pushed)
Started(d, reg, errorsIn) ==
    [threw |-> FALSE, schemas |-> reg, errors |-> AuthErrors(d, errorsIn),
     parameters |-> <<>>, requestBody |-> <<>>, responses |-> <<>>]

\* one extraction and the push that follows it (lines 144-156, 158-170,
\* 172-184)
Extraction(st, d, suffix, schema, loc, proto) ==
    IF st.threw THEN st
    ELSE LET params == generateParamDocFromSchema(
                           st.schemas, d.name \o suffix, schema, loc,
                           d.optionalParams, proto)
         IN  [st EXCEPT !.threw = params.threw,
                        !.schemas = params.schemas,
                        !.errors = ParamErrors(@, params.params),
                        !.parameters = @ \o params.params]

\* lines 186-205
WithBody(st, d, proto) ==
    IF st.threw THEN st
    ELSE LET added == BodyAdded(d, st.schemas, proto)
         IN  [st EXCEPT !.threw = added.threw,
                        !.schemas = added.schemas,
                        !.errors = BodyErrors(@, added),
                        !.requestBody = RequestBody(d, added)]

\* lines 207-244
WithResponses(st, d, proto) ==
    IF st.threw THEN st
    ELSE LET resp == ResponsesLoop(
                         [schemas |-> st.schemas, responses |-> <<>>],
                         d.name, d.responses, Ascending(DOMAIN d.responses),
                         proto)
         IN  [st EXCEPT !.threw = \E statusCode \in DOMAIN d.responses :
                                      ResponseRaises(d.responses[statusCode],
                                                     proto),
                        !.schemas = resp.schemas,
                        !.responses = resp.responses]

\* lines 125-133 and 246-256: the operation, once every registration returned
Operation(st, d) ==
    [threw |-> st.threw, schemas |-> st.schemas, errors |-> st.errors,
     op |-> IF st.threw THEN <<>>
            ELSE [summary |-> d.summary,
                  parameters |-> st.parameters,
                  responses |-> ErrorsLoop(st.responses, st.errors),
                  tags |-> d.tags]
                 @@ AuthSecurity(d)
                 @@ st.requestBody]

\* the body of addDocRoute up to the store into the path table: the operation
\* built, the registry and the errors array as the call leaves them
compile(d, reg, errorsIn, proto) ==
    Operation(
        WithResponses(
            WithBody(
                Extraction(
                    Extraction(
                        Extraction(Started(d, reg, errorsIn),
                                  d, ":params", d.params, "path", proto),
                        d, ":query", d.query, "query", proto),
                    d, ":cookies", d.cookies, "cookie", proto),
                d, proto),
            d, proto),
        d)

\* paths[openApiPath] ??= {}; paths[openApiPath][method] = op
\* `??=` assigns only when the lookup of the key, own or inherited, gives
\* undefined or null; the operation is then set on the object the lookup
\* gives: the table's own entry, or a value found on Object.prototype, or
\* Object.prototype itself (the key __proto__), and in the last two cases the
\* table gains no key
StorePath(table, proto, openApiPath, method, op) ==
    IF openApiPath \in DOMAIN table
    THEN [paths |-> Put(table, openApiPath, Put(table[openApiPath], method, op)),
          proto |-> proto]
    ELSE IF openApiPath = ProtoName
    THEN [paths |-> table, proto |-> Put(proto, MethodChars(method), op)]
    ELSE IF openApiPath \in DOMAIN proto
    THEN [paths |-> table,
          proto |-> Put(proto, openApiPath, Put(proto[openApiPath], method, op))]
    ELSE [paths |-> Put(table, openApiPath, (method :> op)), proto |-> proto]

\* the operation a registration of the pair left, read where StorePath set it
StoredOp(table, proto, pm) ==
    IF pm[1] \in DOMAIN table THEN table[pm[1]][pm[2]]
    ELSE IF pm[1] = ProtoName THEN proto[MethodChars(pm[2])]
    ELSE proto[pm[1]][pm[2]]

\* ----------------------------------------------------------- buildOpenApiDoc
errorSchema ==
    ZodObject(<<Field("message", "string"), Field("statusCode", "number")>>, FALSE)

baseSchemas ==
    <<[name |-> "Pagination",
       schema |-> ZodObject(<<Field("page", "number")>>, TRUE)]>>

\* errorSchema.extend({ name: z.string().meta({ example: name }) })
\*            .meta({ ref: name, description: `${name} response` })
customErrorSchema(name) ==
    [kind |-> "object",
     shape |-> Append(errorSchema.shape,
                      [name |-> "name", type |-> "string", example |-> name]),
     hasRef |-> TRUE,
     description |-> name \o " response"]

\* the registration of a schema without file fields raises (line 72)
RegistrationRaises(schema, proto) ==
    addZodSchema(<<>>, "", schema, <<>>, proto).threw

\* lines 283-285; the loop ends at a registration that raises, with what the
\* registrations before it have stored
RECURSIVE RegisterBase(_, _, _)
RegisterBase(reg, bases, proto) ==
    IF bases = <<>> THEN reg
    ELSE IF RegistrationRaises(Head(bases).schema, proto) THEN reg
    ELSE RegisterBase(
            addZodSchema(reg, Head(bases).name, Head(bases).schema, <<>>,
                         proto).schemas,
            Tail(bases), proto)

\* lines 262-279; the loop ends at a registration that raises
RECURSIVE addErrorComponents(_, _, _)
addErrorComponents(reg, errorNames, proto) ==
    IF errorNames = <<>> THEN reg
    ELSE IF RegistrationRaises(customErrorSchema(Head(errorNames)), proto)
    THEN reg
    ELSE addErrorComponents(
            addZodSchema(reg, Head(errorNames),
                         customErrorSchema(Head(errorNames)), <<>>,
                         proto).schemas,
            Tail(errorNames), proto)

createDocument(table, reg) ==
    [openapi |-> "3.0.0",
     info |-> [title |-> "My API", version |-> "1.0.0"],
     paths |-> table,
     components |->
        [schemas |-> reg,
         securitySchemes |->
            [bearerAuth |-> [type |-> "http", scheme |-> "bearer",
                             bearerFormat |-> "JWT"]]]]

NoDoc == [openapi |-> "none"]

\* no file at the output path
NoFile == [json |-> "absent"]

\* the values NODE_ENV takes in the processes considered
Environments == {"development", "production"}

\* JSON.stringify(openApiObject, null, 2): the text that encodes the document
JSONStringify(openApiObject) == [json |-> "text", encodes |-> openApiObject]

\* a proper prefix, possibly empty, of the text that encodes the document
PrefixOf(openApiObject) == [json |-> "prefix", encodes |-> openApiObject]

\* what fs.writeFileSync meets: the whole text is written; the open of the
\* path is refused (EACCES, EISDIR); the open, which truncates the file,
\* succeeds and a write after it fails (EFBIG, ENOSPC, EIO, EDQUOT)
WriteOutcomes == {"written", "refused", "cut"}

\* createOpenApiFile: fs.writeFileSync replaces the content of the file, or
\* raises; the file is then as it was when the open was refused, and holds a
\* prefix of the new text when a write failed after the open
createOpenApiFile(openApiObject, current, outcome) ==
    CASE outcome = "written" ->
             [threw |-> FALSE, file |-> JSONStringify(openApiObject)]
      [] outcome = "refused" -> [threw |-> TRUE, file |-> current]
      [] outcome = "cut" -> [threw |-> TRUE, file |-> PrefixOf(openApiObject)]

\* lines 281-306: the registry after the call, the document built, the file
\* after the call; threw when the call raised and so returned nothing.  A
\* registration that raises (line 284 or 277 into line 72) ends the call:
\* the schemas registered before it stay, no document is created, the file
\* is not written.  The schema of an error kind is an object, so once
\* Object.prototype has an enumerable key no call gets past line 277.  When
\* no registration raises, only the write of the file can (writeFailed),
\* after the registry was updated
buildOpenApiDoc(table, reg, env, current, outcome, proto) ==
    LET baseRaises == \E i \in 1..Len(baseSchemas) :
                          RegistrationRaises(baseSchemas[i].schema, proto)
        errorRaises == \E i \in 1..Len(ErrorNameValues) :
                           RegistrationRaises(
                               customErrorSchema(ErrorNameValues[i]), proto)
        base == RegisterBase(reg, baseSchemas, proto)
        registered == addErrorComponents(base, ErrorNameValues, proto)
        openApiObject == createDocument(table, registered)
        saved == IF env = "development"
                 THEN createOpenApiFile(openApiObject, current, outcome)
                 ELSE [threw |-> FALSE, file |-> current]
    IN  IF baseRaises
        THEN [threw |-> TRUE, writeFailed |-> FALSE, schemas |-> base,
              doc |-> NoDoc, file |-> current]
        ELSE IF errorRaises
        THEN [threw |-> TRUE, writeFailed |-> FALSE, schemas |-> registered,
              doc |-> NoDoc, file |-> current]
        ELSE [threw |-> saved.threw, writeFailed |-> saved.threw,
              schemas |-> registered, doc |-> openApiObject,
              file |-> saved.file]

\* -------------------------------------------------- the callers' descriptors
Chars(route) ==
    CASE route = "/:a" -> <<"/", ":", "a">>
      [] route = "/{a}" -> <<"/", "{", "a", "}">>
      [] route = "/b" -> <<"/", "b">>
      [] route = "constructor" ->
             <<"c", "o", "n", "s", "t", "r", "u", "c", "t", "o", "r">>
      [] route = "__proto__" -> ProtoName

\* name, route, method and summary of the routes registered
Targets ==
    {[name |-> "getItem", route |-> Chars("/:a"), method |-> "get",
      summary |-> "Get an item"],
     [name |-> "findItem", route |-> Chars("/{a}"), method |-> "get",
      summary |-> "Find an item"],
     [name |-> "getItem", route |-> Chars("/:a"), method |-> "post",
      summary |-> "Post an item"],
     [name |-> "findItem", route |-> Chars("/b"), method |-> "post",
      summary |-> "Post b"],
     [name |-> "getItem", route |-> Chars("constructor"), method |-> "get",
      summary |-> "Get constructor"],
     [name |-> "findItem", route |-> Chars("__proto__"), method |-> "get",
      summary |-> "Get proto"],
     [name |-> "findItem", route |-> Chars("__proto__"), method |-> "post",
      summary |-> "Post proto"]}

SharedArrays == {"commonErrors"}

\* the shared arrays as their callers wrote them
DeclaredArrays == [id \in SharedArrays |-> <<"NOT_FOUND">>]

NoErrors == [kind |-> "undefined", val |-> <<>>, id |-> ""]

LiteralErrors(val) == [kind |-> "literal", val |-> val, id |-> ""]

SharedErrors(id) == [kind |-> "shared", val |-> <<>>, id |-> id]

\* the authentication requirement and the errors argument
Auth(user, errors) == [authenticatedUser |-> user, errors |-> errors]

\* an errors literal that names two kinds without an entry in the status table
DeclaredErrors == <<"VALIDATION_ERROR", "TIMEOUT_ERROR", "UNKNOWN_ERROR">>

Response(description, schema, cookies, contentType) ==
    [description |-> description, schema |-> schema, cookies |-> cookies,
     contentType |-> contentType]

FileField(name, type) ==
    [name |-> name, required |-> TRUE, description |-> "upload", type |-> type]

\* no request schemas, one description-only response
Plain ==
    [params |-> Undefined, query |-> Undefined, cookies |-> Undefined,
     body |-> Undefined, contentType |-> "undefined", optionalParams |-> <<>>,
     fileFields |-> <<>>, tags |-> <<>>,
     responses |-> (200 :> Response("ok", Undefined, "", "undefined"))]

\* every request schema registers; file fields are given with the body, one
\* of them under the name __proto__
Full ==
    [params |-> ZodObject(<<Field("a", "string"), Field("b", "number")>>, TRUE),
     query |-> ZodObject(<<Field("q", "string")>>, TRUE),
     cookies |-> ZodObject(<<Field("sid", "string")>>, TRUE),
     body |-> ZodObject(<<Field("title", "string")>>, TRUE),
     contentType |-> "multipart/form-data", optionalParams |-> <<"b">>,
     fileFields |-> <<FileField("file", "binary"),
                      FileField(ProtoField, "array")>>,
     tags |-> <<"items">>,
     responses |->
        (200 :> Response("ok", ZodObject(<<Field("id", "string")>>, TRUE),
                         "session", "undefined"))]

\* schemas that yield no components, and a non-object path schema
Degraded ==
    [params |-> ZodString(TRUE),
     query |-> ZodObject(<<Field("q", "string")>>, FALSE),
     cookies |-> Undefined,
     body |-> ZodObject(<<Field("title", "string")>>, FALSE),
     contentType |-> "undefined", optionalParams |-> <<>>,
     fileFields |-> <<>>, tags |-> <<>>,
     responses |->
        (200 :> Response("ok", ZodString(FALSE), "session", "undefined"))
        @@ (401 :> Response("login first", Undefined, "", "undefined"))]

\* file fields given with a body whose structure has no field map
FilesOnString ==
    [params |-> ZodObject(<<Field("a", "string")>>, TRUE),
     query |-> Undefined, cookies |-> Undefined,
     body |-> ZodString(TRUE),
     contentType |-> "multipart/form-data", optionalParams |-> <<>>,
     fileFields |-> <<FileField("file", "binary")>>, tags |-> <<>>,
     responses |-> (200 :> Response("ok", Undefined, "", "undefined"))]

\* another body and other responses: one at the status of VALIDATION_ERROR,
\* one with a cookie note and no schema
Other ==
    [params |-> Undefined, query |-> Undefined, cookies |-> Undefined,
     body |-> ZodObject(<<Field("label", "string")>>, TRUE),
     contentType |-> "undefined", optionalParams |-> <<>>,
     fileFields |-> <<FileField("docs", "array")>>, tags |-> <<>>,
     responses |->
        (200 :> Response("done", ZodObject(<<Field("count", "number")>>, TRUE),
                         "", "multipart/form-data"))
        @@ (204 :> Response("no content", Undefined, "session", "undefined"))
        @@ (400 :> Response("bad input", ZodString(TRUE), "", "undefined"))]

\* no request schemas, a response whose schema is no object and, at a higher
\* status, a response whose schema is an object
ResponsesOnly ==
    [params |-> Undefined, query |-> Undefined, cookies |-> Undefined,
     body |-> Undefined, contentType |-> "undefined", optionalParams |-> <<>>,
     fileFields |-> <<>>, tags |-> <<>>,
     responses |->
        (200 :> Response("ok", ZodString(TRUE), "", "undefined"))
        @@ (404 :> Response("missing",
                            ZodObject(<<Field("id", "string")>>, TRUE),
                            "", "undefined"))]

\* what a caller says of a route besides its target
PlainRoute == Auth("none", NoErrors) @@ Plain

PlainShared == Auth("none", SharedErrors("commonErrors")) @@ Plain

FullRoute == Auth("user", SharedErrors("commonErrors")) @@ Full

DegradedRoute == Auth("user", SharedErrors("commonErrors")) @@ Degraded

FilesOnStringRoute == Auth("none", SharedErrors("commonErrors")) @@ FilesOnString

OtherRoute == Auth("admin", LiteralErrors(DeclaredErrors)) @@ Other

ResponsesOnlyRoute == Auth("none", NoErrors) @@ ResponsesOnly

Variants == {FullRoute, DegradedRoute, FilesOnStringRoute, OtherRoute}

Target(summary) == CHOOSE t \in Targets : t.summary = summary

\* the descriptors passed to addDocRoute: "Get an item" with every variant;
\* "Find an item", which translates to the same pair under another name;
\* "Post an item", the same name under another pair; "Post b", another path,
\* without schemas; "Get constructor", whose path is found on Object.prototype;
\* "Get proto" and "Post proto", whose path names Object.prototype itself
Descriptors ==
    {Target("Get an item") @@ v : v \in Variants}
    \cup {Target("Find an item") @@ FullRoute}
    \cup {Target("Post an item") @@ OtherRoute}
    \cup {Target("Post b") @@ PlainShared}
    \cup {Target("Get constructor") @@ PlainRoute}
    \cup {Target("Get proto") @@ PlainRoute}
    \cup {Target("Post proto") @@ ResponsesOnlyRoute}

\* inputs of the calls made to the helpers directly
ZodPool ==
    {ZodObject(<<Field("a", "string"), Field("b", "number")>>, TRUE),
     ZodObject(<<Field("b", "number"), Field("title", "string")>>, TRUE),
     ZodObject(<<>>, TRUE),
     ZodString(TRUE),
     ZodObject(<<Field("a", "string")>>, FALSE),
     ZodString(FALSE)}

FileLists ==
    {<<>>,
     <<FileField("file", "binary")>>,
     <<FileField("title", "array")>>,
     <<FileField("file", "binary"), FileField("file", "array")>>,
     <<FileField(ProtoField, "binary")>>,
     <<FileField(ProtoField, "array"), FileField("file", "binary")>>}

SchemaNames == {"getItem:body", "findItem:body"}

ParamNames == {"", "getItem:params"}

ParamTypes == {"path", "query", "cookie"}

OptionalLists == {<<>>, <<"b">>, <<"b", "a">>, <<"id">>}

RouteChars == {"/", ":", "a", "Z", "0", "{"}

RECURSIVE SeqsUpTo(_, _)
SeqsUpTo(S, n) ==
    IF n = 0 THEN {<<>>}
    ELSE LET shorter == SeqsUpTo(S, n - 1)
         IN  shorter \cup {Append(q, c) : q \in shorter, c \in S}

Routes == SeqsUpTo(RouteChars, MaxLen)

\* ------------------------------------------------------------------ actions
Init ==
    /\ schemas = <<>>
    /\ paths = <<>>
    /\ errArrays = DeclaredArrays
    /\ doc = NoDoc
    /\ NODE_ENV \in Environments
    /\ file = NoFile
    /\ last = [kind |-> "init"]
    /\ calls = 0
    /\ builds = 0
    /\ ended = FALSE
    /\ compiledFrom = <<>>
    /\ objectPrototype = ObjectPrototype

\* the module catches no exception of fs.writeFileSync, and the scripts that
\* call it let a persistence failure end them: no call follows one
Running == ~ended

\* export function addDocRoute(params)
AddDocRoute(d) ==
    /\ calls < MaxCalls
    /\ Running
    /\ LET r == compile(d, schemas, ErrorsOf(d, errArrays), objectPrototype)
           stored(op) == StorePath(paths, objectPrototype,
                                   expressRouteToOpenApiRoute(d.route),
                                   d.method, op)
       IN  /\ schemas' = r.schemas
           /\ errArrays' = IF d.errors.kind = "shared"
                           THEN [errArrays EXCEPT ![d.errors.id] = r.errors]
                           ELSE errArrays
           /\ paths' = IF r.threw THEN paths ELSE stored(r.op).paths
           /\ objectPrototype' =
                  IF r.threw THEN objectPrototype ELSE stored(r.op).proto
           /\ last' = [kind |-> "addDocRoute", prev |-> last.kind, params |-> d,
                       threw |-> r.threw, errors |-> r.errors]
           /\ compiledFrom' =
                  IF r.threw THEN compiledFrom
                  ELSE Put(compiledFrom,
                           <<expressRouteToOpenApiRoute(d.route), d.method>>, d)
    /\ calls' = calls + 1
    /\ UNCHANGED <<doc, NODE_ENV, file, builds, ended>>

\* export function buildOpenApiDoc()
BuildOpenApiDoc ==
    /\ builds < MaxBuilds
    /\ Running
    /\ \E outcome \in WriteOutcomes :
          LET built == buildOpenApiDoc(paths, schemas, NODE_ENV, file, outcome,
                                       objectPrototype)
          IN  /\ schemas' = built.schemas
              /\ doc' = IF built.threw THEN doc ELSE built.doc
              /\ file' = built.file
              /\ last' = [kind |-> "buildOpenApiDoc", prev |-> last.kind,
                          threw |-> built.threw]
              /\ ended' = built.writeFailed
    /\ builds' = builds + 1
    /\ UNCHANGED <<paths, errArrays, NODE_ENV, calls, compiledFrom,
                   objectPrototype>>

\* export function createOpenApiFile(openApiObject), called by a script with
\* a document it holds; the call does not read NODE_ENV
CreateOpenApiFile(openApiObject) ==
    /\ Running
    /\ \E outcome \in WriteOutcomes :
          LET saved == createOpenApiFile(openApiObject, file, outcome)
          IN  /\ file' = saved.file
              /\ ended' = saved.threw
    /\ UNCHANGED <<schemas, paths, errArrays, doc, NODE_ENV, last, calls, builds,
                   compiledFrom, objectPrototype>>

Register == \E d \in Descriptors : AddDocRoute(d)

\* the document a script has at hand to save: the one the last build returned
Saveable == {doc} \ {NoDoc}

Save == \E openApiObject \in Saveable : CreateOpenApiFile(openApiObject)

Next == Register \/ BuildOpenApiDoc \/ Save

Spec == Init /\ [][Next]_vars

\* ---- addZodSchema called directly
AddZodSchemaCall(name, schema, fileFields) ==
    /\ calls < MaxCalls
    /\ LET r == addZodSchema(schemas, name, schema, fileFields,
                              objectPrototype)
       IN  /\ schemas' = r.schemas
           /\ last' = [kind |-> "addZodSchema", prev |-> last.kind,
                       name |-> name, schema |-> schema,
                       fileFields |-> fileFields, before |-> schemas,
                       threw |-> r.threw, ret |-> r.ret]
    /\ calls' = calls + 1
    /\ UNCHANGED <<paths, errArrays, doc, NODE_ENV, file, builds, ended,
                   compiledFrom, objectPrototype>>

NextZod ==
    \E name \in SchemaNames, schema \in ZodPool, fileFields \in FileLists :
        AddZodSchemaCall(name, schema, fileFields)

SpecZod == Init /\ [][NextZod]_vars

\* ---- generateParamDocFromSchema called directly
GenerateParamDocCall(name, schema, loc, optionalParams) ==
    /\ calls < MaxCalls
    /\ LET r == generateParamDocFromSchema(schemas, name, schema, loc,
                                           optionalParams, objectPrototype)
       IN  /\ schemas' = r.schemas
           /\ last' = [kind |-> "generateParamDocFromSchema",
                       prev |-> last.kind, name |-> name, schema |-> schema,
                       loc |-> loc, optionalParams |-> optionalParams,
                       before |-> schemas, params |-> r.params]
    /\ calls' = calls + 1
    /\ UNCHANGED <<paths, errArrays, doc, NODE_ENV, file, builds, ended,
                   compiledFrom, objectPrototype>>

NextParam ==
    \E name \in ParamNames, schema \in ZodPool \cup {Undefined},
       loc \in ParamTypes, optionalParams \in OptionalLists :
        GenerateParamDocCall(name, schema, loc, optionalParams)

SpecParam == Init /\ [][NextParam]_vars

\* ---- expressRouteToOpenApiRoute called on a route, then on its own result
Translate(p) ==
    /\ last.kind = "init"
    /\ last' = [kind |-> "expressRouteToOpenApiRoute", prev |-> last.kind,
                route |-> p, result |-> expressRouteToOpenApiRoute(p)]
    /\ UNCHANGED <<schemas, paths, errArrays, doc, NODE_ENV, file, calls, builds,
                   ended, compiledFrom, objectPrototype>>

TranslateAgain ==
    /\ last.kind = "expressRouteToOpenApiRoute"
    /\ last.prev = "init"
    /\ last' = [kind |-> "expressRouteToOpenApiRoute", prev |-> last.kind,
                route |-> last.result,
                result |-> expressRouteToOpenApiRoute(last.result),
                first |-> last.route]
    /\ UNCHANGED <<schemas, paths, errArrays, doc, NODE_ENV, file, calls, builds,
                   ended, compiledFrom, objectPrototype>>

TranslateRoute == \E p \in Routes : Translate(p)

NextPath == TranslateRoute \/ TranslateAgain

SpecPath == Init /\ [][NextPath]_vars

\* ------------------------------------------------------ reading the tables
\* the (path, method) pairs of a path table
OpsOf(table) == UNION {{<<p, m>> : m \in DOMAIN table[p]} : p \in DOMAIN table}

OpAt(table, pm) == table[pm[1]][pm[2]]

\* the $ref values of a content map, of an operation
ContentRefs(r) ==
    IF "content" \in DOMAIN r
    THEN {r.content[c].schema.ref : c \in DOMAIN r.content}
    ELSE {}

RefsOfOp(op) ==
    (IF "requestBody" \in DOMAIN op THEN ContentRefs(op.requestBody) ELSE {})
    \cup UNION {ContentRefs(op.responses[s]) : s \in DOMAIN op.responses}

\* the reference is `#/components/schemas/<k>` for a key k of the registry
Resolves(ref, reg) == \E k \in DOMAIN reg : ref = "#/components/schemas/" \o k

\* the pair a descriptor is stored under
PairOf(d) == <<expressRouteToOpenApiRoute(d.route), d.method>>

Registered == last.kind = "addDocRoute" /\ ~last.threw

\* the operation the last registration compiled, and the operation of a pair
\* after the step
LastOp == StoredOp(paths, objectPrototype, PairOf(last.params))

OpAfter(pm) == StoredOp(paths', objectPrototype', pm)

\* ----------------------------------------------------------------- claims

\* C1: in a document returned by buildOpenApiDoc, every schema reference of
\* every operation of the path table (request body, declared response, error
\* response) names a key of the document's schema registry.
C1_NoDanglingReference ==
    doc # NoDoc =>
        \A pm \in OpsOf(doc.paths) :
            \A ref \in RefsOfOp(OpAt(doc.paths, pm)) :
                Resolves(ref, doc.components.schemas)

\* a built document holding an operation with a request body reference, a
\* declared-response reference and error-response references
C1_Witness ==
    /\ last.kind = "buildOpenApiDoc"
    /\ ~last.threw
    /\ \E pm \in OpsOf(doc.paths) :
          LET op == OpAt(doc.paths, pm)
          IN  /\ "requestBody" \in DOMAIN op
              /\ 200 \in DOMAIN op.responses
              /\ ContentRefs(op.responses[200]) # {}
              /\ 401 \in DOMAIN op.responses
              /\ Cardinality(RefsOfOp(op)) >= 4

\* C2 as stated: a registration stores the operation compiled from its
\* descriptor under its (translated path, method) pair, replacing the
\* operation the pair held, and leaves the operations of every other pair as
\* they were; the table gains no other pair.
C2_LastRegistrationWins ==
    [][(last'.kind = "addDocRoute" /\ calls' = calls + 1 /\ ~last'.threw) =>
         LET d == last'.params
             pm == PairOf(d)
         IN  /\ OpsOf(paths') = OpsOf(paths) \cup {pm}
             /\ OpAt(paths', pm) = compile(d, schemas, ErrorsOf(d, errArrays),
                                      objectPrototype).op
             /\ OpAt(paths', pm).summary = d.summary
             /\ \A other \in OpsOf(paths) \ {pm} :
                    OpAt(paths', other) = OpAt(paths, other)]_vars

\* C2, what the code does: the same holds of every registration whose
\* translated path is a key of the table or is not found on Object.prototype;
\* a registration whose translated path is found only on Object.prototype
\* leaves the table as it was and sets the operation on the object found.
C2_RegistrationWinsUnlessPathInherited ==
    [][(last'.kind = "addDocRoute" /\ calls' = calls + 1 /\ ~last'.threw) =>
         LET d == last'.params
             pm == PairOf(d)
             inherited == /\ pm[1] \notin DOMAIN paths
                          /\ pm[1] \in DOMAIN objectPrototype \cup {ProtoName}
         IN  /\ OpAfter(pm) = compile(d, schemas, ErrorsOf(d, errArrays),
                                      objectPrototype).op
             /\ IF inherited
                THEN paths' = paths
                ELSE /\ OpsOf(paths') = OpsOf(paths) \cup {pm}
                     /\ objectPrototype' = objectPrototype
                     /\ \A other \in OpsOf(paths) \ {pm} :
                            OpAt(paths', other) = OpAt(paths, other)]_vars

\* the pair /{a} get was registered for findItem and then again for getItem,
\* while another pair is in the table
C2_Witness ==
    /\ Registered
    /\ last.params.name = "getItem"
    /\ PairOf(last.params) = <<Chars("/{a}"), "get">>
    /\ "findItem:body" \in DOMAIN schemas
    /\ OpsOf(paths) = {<<Chars("/{a}"), "get">>}
    /\ OpAt(paths, <<Chars("/{a}"), "get">>).summary = "Get an item"

\* the names of the file fields of a list, and the last file field of a name
FileNames(fileFields) == {fileFields[i].name : i \in 1..Len(fileFields)}

LastFile(fileFields, k) ==
    fileFields[CHOOSE i \in 1..Len(fileFields) :
                  /\ fileFields[i].name = k
                  /\ \A j \in (i + 1)..Len(fileFields) : fileFields[j].name # k]

ZodReturnedTrue == last.kind = "addZodSchema" /\ ~last.threw /\ last.ret

\* the names under which the file fields of a list become fields of a field
\* map: all of them but __proto__
InjectedNames(fileFields) == FileNames(fileFields) \ {ProtoField}

\* the field map m is the field map `base` with the file fields of the list
\* set in it, each under its name, but for those named __proto__
IsMerge(m, base, fileFields) ==
    /\ DOMAIN m = DOMAIN base \cup InjectedNames(fileFields)
    /\ \A k \in DOMAIN m :
          m[k] = IF k \in InjectedNames(fileFields)
                 THEN FileProperty(LastFile(fileFields, k))
                 ELSE base[k]

\* C3 as stated: a call without file fields leaves only its own schema's
\* structure under the name, and a call with file fields merges them into the
\* field map of the entry the name held before the call.
C3_AsStated ==
    (ZodReturnedTrue /\ last.name \in DOMAIN last.before) =>
        IF last.fileFields = <<>>
        THEN schemas[last.name] = Structure(last.schema)
        ELSE "properties" \in DOMAIN last.before[last.name] =>
                IsMerge(schemas[last.name].properties,
                        last.before[last.name].properties, last.fileFields)

\* C3 amended: after a successful call the name holds the structure of the
\* schema of that call, whatever the name held before; the file fields of the
\* call are set in the field map of that structure (not of the entry stored
\* before), each as a field under its name, but for a file field named
\* __proto__, which gives the field map no field; no other name changes.
C3_OverwriteWithOwnFileFields ==
    ZodReturnedTrue =>
        LET entry == schemas[last.name]
            own == Structure(last.schema)
        IN  /\ DOMAIN schemas = DOMAIN last.before \cup {last.name}
            /\ \A n \in DOMAIN last.before \ {last.name} :
                   schemas[n] = last.before[n]
            /\ IF last.fileFields = <<>>
               THEN entry = own
               ELSE /\ entry.type = own.type
                    /\ entry.description = own.description
                    /\ IsMerge(entry.properties, own.properties, last.fileFields)

\* a second registration under a name, with a file field named __proto__ and
\* a file field named file, of a schema whose fields differ from those of the
\* entry the name held: the entry has the field file and no field __proto__
C3_Witness ==
    /\ ZodReturnedTrue
    /\ last.name \in DOMAIN last.before
    /\ FileNames(last.fileFields) = {ProtoField, "file"}
    /\ "properties" \in DOMAIN last.before[last.name]
    /\ \E k \in DOMAIN last.before[last.name].properties :
          k \notin DOMAIN schemas[last.name].properties
    /\ "file" \in DOMAIN schemas[last.name].properties
    /\ ProtoField \notin DOMAIN schemas[last.name].properties

\* C4: a conversion that yields no components returns false and leaves the
\* registry as it was; a conversion that yields components returns true and
\* the name is then in the registry.
C4_FalseLeavesRegistryTrueStores ==
    last.kind = "addZodSchema" =>
        IF createSchema(last.schema).components = <<>>
        THEN ~last.threw /\ ~last.ret /\ schemas = last.before
        ELSE ~last.threw /\ last.ret /\ last.name \in DOMAIN schemas

\* C5: the operation stored for a descriptor whose authenticatedUser is not
\* 'none' has a response at the status of UNAUTHORIZED and carries the
\* bearer-token security requirement.
C5_AuthenticatedHasUnauthorizedAndSecurity ==
    (Registered /\ last.params.authenticatedUser # "none") =>
        /\ ErrorStatus(UNAUTHORIZED) \in DOMAIN LastOp.responses
        /\ "security" \in DOMAIN LastOp
        /\ LastOp.security = <<[bearerAuth |-> <<>>]>>

\* an authenticated route that declares a response of its own at 401 and whose
\* errors array already held UNAUTHORIZED when it was registered
C5_Witness ==
    /\ Registered
    /\ last.params.authenticatedUser = "user"
    /\ 401 \in DOMAIN last.params.responses
    /\ last.prev = "addDocRoute"
    /\ Len(errArrays["commonErrors"]) = 2
    /\ LastOp.responses[401].description = UNAUTHORIZED

\* the errors a descriptor declares, as its caller wrote them
Declared(d) ==
    CASE d.errors.kind = "undefined" -> <<>>
      [] d.errors.kind = "literal" -> d.errors.val
      [] d.errors.kind = "shared" -> DeclaredArrays[d.errors.id]

NoSchemas(d) ==
    /\ d.params = Undefined /\ d.query = Undefined
    /\ d.cookies = Undefined /\ d.body = Undefined
    /\ \A st \in DOMAIN d.responses : d.responses[st].schema = Undefined

\* C6: the operation stored for a descriptor with authenticatedUser 'none' and
\* no schemas has no parameters, no request body, no security requirement, and
\* each of its responses is a declared response or the response of a declared
\* error: none refers to VALIDATION_ERROR or UNAUTHORIZED unless declared.
C6_PlainRouteHasOnlyDeclaredResponses ==
    (Registered /\ last.params.authenticatedUser = "none"
                /\ NoSchemas(last.params)) =>
        LET d == last.params
        IN  /\ LastOp.parameters = <<>>
            /\ "requestBody" \notin DOMAIN LastOp
            /\ "security" \notin DOMAIN LastOp
            /\ \A st \in DOMAIN LastOp.responses :
                  \/ /\ st \in DOMAIN d.responses
                     /\ LastOp.responses[st] =
                            [description |-> d.responses[st].description]
                  \/ \E e \in Range(Declared(d)) :
                        /\ ErrorStatus(e) = st
                        /\ LastOp.responses[st].description = e
            /\ \A k \in {VALIDATION_ERROR, UNAUTHORIZED} \ Range(Declared(d)) :
                  \A st \in DOMAIN LastOp.responses :
                      SchemaRef(k).ref \notin ContentRefs(LastOp.responses[st])

\* C7 as stated: of two buildOpenApiDoc calls in succession, neither ended by
\* a failed write of the file, both return a document, the two documents are
\* equal, and the second call leaves the registry and the path table as the
\* first call left them.
C7_TwoBuildsReturnEqualDocuments ==
    [][(last.kind = "buildOpenApiDoc" /\ last'.kind = "buildOpenApiDoc"
        /\ builds' = builds + 1 /\ ~ended') =>
          /\ ~last.threw
          /\ ~last'.threw
          /\ doc' = doc
          /\ schemas' = schemas
          /\ paths' = paths]_vars

\* C7, what the code does: a buildOpenApiDoc call that directly follows
\* another leaves the registry and the path table as the first call left
\* them; when both calls return, the second returns a document equal to the
\* first one's and leaves the file with the content the first call left; and
\* once Object.prototype has an enumerable key, neither call returns and the
\* document and the file stay as they were.
C7_RebuildIsIdempotent ==
    [][(last.kind = "buildOpenApiDoc" /\ last'.kind = "buildOpenApiDoc"
        /\ builds' = builds + 1) =>
          /\ schemas' = schemas
          /\ paths' = paths
          /\ (~last.threw /\ ~last'.threw) =>
                 /\ doc' = doc
                 /\ file' = file
          /\ InheritedKeys(objectPrototype) # {} =>
                 /\ last.threw /\ last'.threw
                 /\ doc' = doc
                 /\ file' = file]_vars

\* two builds in succession after a route with schemas was registered, both
\* returning, in development: the file holds the text of the document
C7_Witness ==
    /\ last.kind = "buildOpenApiDoc"
    /\ last.prev = "buildOpenApiDoc"
    /\ ~last.threw
    /\ NODE_ENV = "development"
    /\ file = JSONStringify(doc)
    /\ builds = 2
    /\ \E pm \in OpsOf(doc.paths) : "requestBody" \in DOMAIN OpAt(doc.paths, pm)
    /\ "UNKNOWN_ERROR" \in DOMAIN doc.components.schemas
    /\ doc.paths = paths
    /\ doc.components.schemas = schemas

\* the schema of the last generateParamDocFromSchema call was stored by it
ParamSchemaRegistered ==
    /\ last.name # ""
    /\ last.schema # Undefined
    /\ createSchema(last.schema).components # <<>>

\* C8: for an object schema that registers, one parameter per declared field,
\* in field order, with `in` the requested location and `required` true
\* exactly when the field is not in the optional list; an empty list when no
\* schema is given, when registration fails, or when the schema is no object.
C8_OneParameterPerField ==
    last.kind = "generateParamDocFromSchema" =>
        IF ParamSchemaRegistered /\ last.schema.kind = "object"
        THEN /\ Len(last.params) = Len(last.schema.shape)
             /\ \A i \in 1..Len(last.params) :
                   /\ last.params[i].name = last.schema.shape[i].name
                   /\ last.params[i].in = last.loc
                   /\ last.params[i].required =
                         (last.schema.shape[i].name
                             \notin Range(last.optionalParams))
                   /\ last.params[i].schema.schema.type
                         = last.schema.shape[i].type
             /\ last.name \in DOMAIN schemas
        ELSE last.params = <<>>

\* the fields {a, b} extracted for `query` with b optional
C8_Witness ==
    /\ last.kind = "generateParamDocFromSchema"
    /\ last.loc = "query"
    /\ last.optionalParams = <<"b">>
    /\ Len(last.params) = 2
    /\ last.params[1].name = "a" /\ last.params[1].required
    /\ last.params[2].name = "b" /\ ~last.params[2].required

\* position i of p starts a `:name` token; position j ends one
TokenStart(p, i) ==
    /\ p[i] = ":"
    /\ i < Len(p)
    /\ p[i + 1] \in WordChars

TokenEnd(p, j) ==
    /\ p[j] \in WordChars
    /\ (j = Len(p) \/ p[j + 1] \notin WordChars)
    /\ \E i \in 1..(j - 1) :
          /\ TokenStart(p, i)
          /\ \A k \in (i + 1)..j : p[k] \in WordChars

\* where the character at position i of p stands in the translation of p
Shifted(p, i) == i + Cardinality({j \in 1..(i - 1) : TokenEnd(p, j)})

HasNoToken(p) == \A i \in 1..Len(p) : ~TokenStart(p, i)

\* C9: a route without `:name` tokens is translated to itself, so translating
\* the result again changes nothing; in every route each `:name` token becomes
\* `{name}` and every other character stays where it was, in order.
C9_TranslationReplacesTokensOnly ==
    last.kind = "expressRouteToOpenApiRoute" =>
        LET p == last.route
            out == last.result
        IN  /\ Len(out) = Len(p) + Cardinality({j \in 1..Len(p) : TokenEnd(p, j)})
            /\ \A i \in 1..Len(p) :
                  /\ out[Shifted(p, i)] = IF TokenStart(p, i) THEN "{" ELSE p[i]
                  /\ TokenEnd(p, i) => out[Shifted(p, i) + 1] = "}"
            /\ HasNoToken(p) => out = p
            /\ (last.prev = "expressRouteToOpenApiRoute"
                  /\ HasNoToken(last.first)) => out = p

\* a route with a token translated, and its translation (which has no token)
\* translated again
C9_Witness ==
    /\ last.kind = "expressRouteToOpenApiRoute"
    /\ last.prev = "expressRouteToOpenApiRoute"
    /\ last.first = <<"/", ":", "Z", "0">>
    /\ last.route = <<"/", "{", "Z", "0", "}">>
    /\ last.result = last.route

\* the registration of a schema with file fields raises: the schema is given
\* and its conversion raises, or it yields a component that is no object and
\* a file field is to be set in it
Raises(z, fileFields, proto) ==
    /\ z # Undefined
    /\ \/ ConversionRaises(z, proto)
       \/ /\ createSchema(z).components # <<>>
          /\ fileFields # <<>>
          /\ z.kind # "object"

\* the registration of a schema returns true
Registers(z, fileFields, proto) ==
    /\ z # Undefined
    /\ ~Raises(z, fileFields, proto)
    /\ createSchema(z).components # <<>>

\* a call of addDocRoute reaches the registration of its body (no extraction
\* has raised), of its response at a status (nor the body, nor a response at
\* a lower status)
ReachesBody(d, proto) ==
    \A z \in {d.params, d.query, d.cookies} : ~Raises(z, <<>>, proto)

ReachesResponse(d, st, proto) ==
    /\ ReachesBody(d, proto)
    /\ ~Raises(d.body, d.fileFields, proto)
    /\ \A c \in DOMAIN d.responses :
           c < st => ~Raises(d.responses[c].schema, <<>>, proto)

\* no registration of the call raises
Returns(d, proto) ==
    /\ ReachesBody(d, proto)
    /\ ~Raises(d.body, d.fileFields, proto)
    /\ \A c \in DOMAIN d.responses : ~Raises(d.responses[c].schema, <<>>, proto)

\* a schema is given and its registration returns false
FailsToRegister(schema) ==
    schema # Undefined /\ createSchema(schema).components = <<>>

FailedResponses(d) ==
    {st \in DOMAIN d.responses : FailsToRegister(d.responses[st].schema)}

\* the body is given and the call that registers it does not return true
BodyNotRegistered(d, reg) ==
    d.body # Undefined /\ ~BodyAdded(d, reg, objectPrototype).ret

\* the descriptor without its body, without the responses that fail to register
WithoutBody(d) == [d EXCEPT !.body = Undefined]

WithoutFailedResponses(d) ==
    [d EXCEPT !.responses = [st \in DOMAIN @ \ FailedResponses(d) |-> @[st]]]

\* the step is a registration of a descriptor of which `failed` is the
\* descriptor without the fragments that were not registered: the operation
\* is stored under its pair, with no request body when the body was dropped
\* and no reference to a dropped response schema, and the operation, the
\* registry and the errors array are what `failed` alone gives
DropsOnlyFailed(d, failed) ==
    LET pm == PairOf(d)
        expected == compile(failed, schemas, ErrorsOf(d, errArrays),
                            objectPrototype)
    IN  /\ ~last'.threw
        /\ pm \in OpsOf(paths')
        /\ failed.body = Undefined => "requestBody" \notin DOMAIN OpAfter(pm)
        /\ \A st \in FailedResponses(d) :
               SchemaRef(d.name \o ":response" \o ToString(st)).ref
                   \notin RefsOfOp(OpAfter(pm))
        /\ OpAfter(pm) = expected.op
        /\ schemas' = expected.schemas
        /\ errArrays' = IF d.errors.kind = "shared"
                        THEN [errArrays EXCEPT ![d.errors.id] = expected.errors]
                        ELSE errArrays

\* C10: addDocRoute never aborts a route because a schema registration
\* failed: when the body schema or a response schema is not registered, the
\* operation is still stored under its pair, without the failed fragment, and
\* everything else is what the descriptor without that fragment gives.
C10_NeverAbortsOnFailedRegistration ==
    [][(last'.kind = "addDocRoute" /\ calls' = calls + 1
        /\ (BodyNotRegistered(last'.params, schemas)
            \/ FailedResponses(last'.params) # {})) =>
         DropsOnlyFailed(
            last'.params,
            WithoutFailedResponses(
                IF BodyNotRegistered(last'.params, schemas)
                THEN WithoutBody(last'.params) ELSE last'.params))]_vars

\* the part of C10 that holds: the same, for registrations that return false
\* (no conversion raises, no file field raises)
C10_ReturnedFalseOnlyDropsItsFragment ==
    [][(last'.kind = "addDocRoute" /\ calls' = calls + 1
        /\ Returns(last'.params, objectPrototype)
        /\ (FailsToRegister(last'.params.body)
            \/ FailedResponses(last'.params) # {})) =>
         DropsOnlyFailed(
            last'.params,
            WithoutFailedResponses(
                IF FailsToRegister(last'.params.body)
                THEN WithoutBody(last'.params) ELSE last'.params))]_vars

\* the response the loop over the errors writes for a kind
ErrorResponseOf(e) ==
    [description |-> e,
     content |-> ("application/json" :>
                    [schema |-> [ref |-> "#/components/schemas/" \o e]])]

\* the last kind of a list that resolves to the status st
LastKindAt(errors, st) ==
    errors[CHOOSE i \in 1..Len(errors) :
              /\ ErrorStatus(errors[i]) = st
              /\ \A j \in (i + 1)..Len(errors) : ErrorStatus(errors[j]) # st]

\* C11 as stated: every kind of the final error list of a stored route has,
\* at its status, a response whose description and reference name that kind.
C11_AsStated ==
    Registered =>
        \A e \in Range(last.errors) :
            /\ ErrorStatus(e) \in DOMAIN LastOp.responses
            /\ LastOp.responses[ErrorStatus(e)] = ErrorResponseOf(e)

\* C11 amended: every kind of the final error list has an error response at
\* its status (500 when unmapped); the response names the last kind of the
\* list that resolves to that status, so a kind is named by it exactly when no
\* later kind of the list shares its status.
C11_ErrorResponseNamesLastKindOfStatus ==
    Registered =>
        \A e \in Range(last.errors) :
            /\ ErrorStatus(e) \in DOMAIN LastOp.responses
            /\ LastOp.responses[ErrorStatus(e)]
                  = ErrorResponseOf(LastKindAt(last.errors, ErrorStatus(e)))

\* a stored route whose final list holds TIMEOUT_ERROR before UNKNOWN_ERROR,
\* two kinds without an entry in the status table, which both resolve to the
\* default 500, and UNAUTHORIZED added at its end
C11_Witness ==
    /\ Registered
    /\ last.errors = <<"VALIDATION_ERROR", "TIMEOUT_ERROR",
                       "UNKNOWN_ERROR", "UNAUTHORIZED">>
    /\ {"TIMEOUT_ERROR", "UNKNOWN_ERROR"} \cap DOMAIN errorStatusMap = {}
    /\ LastOp.responses[500].description = "UNKNOWN_ERROR"
    /\ LastOp.responses[401].description = "UNAUTHORIZED"

\* the response object the loop over the responses writes for a declared
\* response that has no schema or whose schema registered
DeclaredResponseOf(name, statusCode, r) ==
    IF r.schema = Undefined THEN [description |-> r.description]
    ELSE [description |-> r.description,
          content |->
              ((IF r.contentType = "undefined" THEN "application/json"
                ELSE r.contentType) :>
                 [schema |-> [ref |-> "#/components/schemas/" \o name
                                       \o ":response" \o ToString(statusCode)]])]
         @@ (IF r.cookies = "" THEN <<>>
             ELSE [headers |-> [SetCookie |-> [description |-> r.cookies,
                                               schema |-> [type |-> "string"]]]])

\* the statuses the kinds of a list resolve to
ErrorStatuses(errors) == {ErrorStatus(e) : e \in Range(errors)}

\* the declared responses that have no schema or whose schema registers
KeptResponses(d) == DOMAIN d.responses \ FailedResponses(d)

\* C12 as stated: every declared response with no schema or with a schema
\* that registers is in the stored operation under its status, as declared,
\* also when an error kind of the route resolves to the same status.
C12_AsStated ==
    Registered =>
        \A st \in KeptResponses(last.params) :
            /\ st \in DOMAIN LastOp.responses
            /\ LastOp.responses[st]
                  = DeclaredResponseOf(last.params.name, st,
                                       last.params.responses[st])

\* C12 amended: such a response is in the stored operation as declared (a
\* response without schema: its description and nothing else, a cookie note
\* is dropped; a response whose schema registered: its description, the
\* content reference <name>:response<status> under its content type, and a
\* Set-Cookie header when a cookie note is given) unless a kind of the final
\* error list resolves to its status; then the status holds the error
\* response of that kind and nothing of the declared response.
C12_DeclaredResponseUnlessErrorStatus ==
    Registered =>
        \A st \in KeptResponses(last.params) :
            /\ st \in DOMAIN LastOp.responses
            /\ LastOp.responses[st]
                  = IF st \in ErrorStatuses(last.errors)
                    THEN ErrorResponseOf(LastKindAt(last.errors, st))
                    ELSE DeclaredResponseOf(last.params.name, st,
                                            last.params.responses[st])

\* a stored route with a schema-bearing response kept as declared, another
\* schema-bearing response, at the status of VALIDATION_ERROR, replaced, and
\* a response with a cookie note and no schema stored with its description
\* only
C12_Witness ==
    /\ Registered
    /\ {200, 204, 400} \subseteq KeptResponses(last.params)
    /\ last.params.responses[204].schema = Undefined
    /\ last.params.responses[204].cookies # ""
    /\ 204 \notin ErrorStatuses(last.errors)
    /\ LastOp.responses[204] = [description |-> "no content"]
    /\ last.params.responses[400].schema # Undefined
    /\ 200 \notin ErrorStatuses(last.errors)
    /\ ContentRefs(LastOp.responses[200])
          = {"#/components/schemas/" \o last.params.name \o ":response200"}
    /\ LastOp.responses[400].description = "VALIDATION_ERROR"

\* a stored authenticated route with a description-only response declared at
\* 401: the status holds the UNAUTHORIZED error response
C12_WitnessDescriptionOnly ==
    /\ Registered
    /\ 401 \in KeptResponses(last.params)
    /\ last.params.responses[401].schema = Undefined
    /\ LastOp.responses[401].description = "UNAUTHORIZED"

\* how many times a kind occurs in a list
Occurrences(errors, e) == Cardinality({i \in 1..Len(errors) : errors[i] = e})

\* what the extraction of a descriptor's path, query or cookie schema returns
\* (nothing when it raises)
Extracted(d, loc) ==
    generateParamDocFromSchema(
        schemas,
        d.name \o (CASE loc = "path" -> ":params" [] loc = "query" -> ":query"
                     [] loc = "cookie" -> ":cookies"),
        CASE loc = "path" -> d.params [] loc = "query" -> d.query
          [] loc = "cookie" -> d.cookies,
        loc, d.optionalParams, objectPrototype).params

\* the extraction of a schema returns a non-empty list: the schema is given,
\* its conversion returns with components, and it is an object with a field
\* (the conversion of an object returns only while Object.prototype has no
\* enumerable key, and then no extraction before it has raised)
YieldsParameters(schema) ==
    /\ Registers(schema, <<>>, objectPrototype)
    /\ schema.kind = "object"
    /\ schema.shape # <<>>

\* C13: a call of addDocRoute appends VALIDATION_ERROR to the errors array at
\* most once; it appends it exactly when the array did not hold it at entry
\* and one of the path, query and cookie extractions returned a non-empty
\* list or the body schema registered (returned true); the array is otherwise
\* only extended; the parameters of the stored operation are the path
\* parameters, then the query parameters, then the cookie parameters.
C13_ValidationErrorOnceAndParameterOrder ==
    [][(last'.kind = "addDocRoute" /\ calls' = calls + 1) =>
         LET d == last'.params
             entry == ErrorsOf(d, errArrays)
             final == last'.errors
             appended == Occurrences(final, VALIDATION_ERROR)
                            - Occurrences(entry, VALIDATION_ERROR)
             validated ==
                 \/ YieldsParameters(d.params)
                 \/ YieldsParameters(d.query)
                 \/ YieldsParameters(d.cookies)
                 \/ /\ ReachesBody(d, objectPrototype)
                    /\ Registers(d.body, d.fileFields, objectPrototype)
         IN  /\ appended \in {0, 1}
             /\ appended = 1 <=> (VALIDATION_ERROR \notin Range(entry) /\ validated)
             /\ Len(final) >= Len(entry)
             /\ SubSeq(final, 1, Len(entry)) = entry
             /\ ~last'.threw =>
                    OpAfter(PairOf(d)).parameters
                        = Extracted(d, "path") \o Extracted(d, "query")
                            \o Extracted(d, "cookie")]_vars

\* the first call registered a route whose three extractions are non-empty
\* and whose body registers, with an array that did not hold VALIDATION_ERROR:
\* the array holds it once and the four parameters are in the order path,
\* path, query, cookie
C13_Witness ==
    /\ Registered
    /\ calls = 1
    /\ last.params.errors.kind = "shared"
    /\ VALIDATION_ERROR \notin Range(DeclaredArrays[last.params.errors.id])
    /\ Occurrences(last.errors, VALIDATION_ERROR) = 1
    /\ "requestBody" \in DOMAIN LastOp
    /\ [i \in 1..Len(LastOp.parameters) |-> LastOp.parameters[i].in]
          = <<"path", "path", "query", "cookie">>

\* C14: a registration leaves the errors array supplied by the caller as it
\* was, and the operation it stores is the one compiled from the descriptor
\* with the error list as declared, whatever registrations ran before, also
\* when several descriptors share one array.
C14_CallerErrorListUnchanged ==
    [][(last'.kind = "addDocRoute" /\ calls' = calls + 1) =>
         LET d == last'.params
         IN  /\ errArrays' = errArrays
             /\ ~last'.threw =>
                    OpAfter(PairOf(d))
                        = compile(d, schemas, Declared(d),
                                  objectPrototype).op]_vars

\* the names of the base schemas
BaseNames == {baseSchemas[i].name : i \in 1..Len(baseSchemas)}

\* C15 as stated: the document a buildOpenApiDoc call returns holds every
\* (translated path, method) pair registered so far by a call that returned,
\* each with the operation its latest registration compiled.
C15_DocumentHoldsEveryRegisteredPair ==
    (last.kind = "buildOpenApiDoc" /\ ~last.threw) =>
        /\ OpsOf(doc.paths) = DOMAIN compiledFrom
        /\ \A pm \in DOMAIN compiledFrom \cap OpsOf(doc.paths) :
               OpAt(doc.paths, pm) = StoredOp(paths, objectPrototype, pm)

\* C15, what the code does while Object.prototype has no enumerable key: every
\* buildOpenApiDoc call, whatever calls ran before it, returns a
\* document whose path table is the path table as it stands at the call (the
\* same pairs, each with the operation last stored under it) and whose
\* components hold every name of the registry as it stands when the call
\* returns: every schema registered by the routes so far, one schema per error
\* kind with that kind as the example of its name field, and each base schema;
\* the call leaves the path table as it was. In development the document
\* returned is also the content of the file; a call whose write of the file
\* raises has registered the same schemas and returns no document, and the
\* file is then as it was or holds a prefix of the text of the document the
\* call built.  A call made once Object.prototype has an enumerable key
\* raises: it registers at most base schemas that are no objects, returns no
\* document and leaves the file as it was.
C15_BuildReflectsAccumulatedState ==
    [][(last'.kind = "buildOpenApiDoc" /\ builds' = builds + 1) =>
       IF InheritedKeys(objectPrototype) # {}
       THEN /\ last'.threw
            /\ UNCHANGED <<paths, doc, file>>
            /\ DOMAIN schemas \subseteq DOMAIN schemas'
            /\ \A n \in DOMAIN schemas' :
                   \/ n \in DOMAIN schemas /\ schemas'[n] = schemas[n]
                   \/ \E i \in 1..Len(baseSchemas) :
                          /\ baseSchemas[i].name = n
                          /\ baseSchemas[i].schema.kind # "object"
                          /\ schemas'[n] = Structure(baseSchemas[i].schema)
       ELSE
         /\ paths' = paths
         /\ DOMAIN schemas' = DOMAIN schemas \cup ErrorName \cup BaseNames
         /\ \A n \in DOMAIN schemas \ (ErrorName \cup BaseNames) :
                schemas'[n] = schemas[n]
         /\ \A e \in ErrorName :
                /\ schemas'[e].description = e \o " response"
                /\ schemas'[e].properties["name"].example = e
         /\ \A i \in 1..Len(baseSchemas) :
                schemas'[baseSchemas[i].name] = Structure(baseSchemas[i].schema)
         /\ last'.threw =>
                /\ NODE_ENV = "development"
                /\ doc' = doc
                /\ file' \in {file, PrefixOf(createDocument(paths, schemas'))}
         /\ ~last'.threw =>
                /\ OpsOf(doc'.paths) = OpsOf(paths)
                /\ \A pm \in OpsOf(paths) :
                       OpAt(doc'.paths, pm) = OpAt(paths, pm)
                /\ doc'.components.schemas = schemas'
                /\ file' = IF NODE_ENV = "development"
                           THEN JSONStringify(doc') ELSE file]_vars

\* the second build, run right after a registration that followed the first
\* build: the document has the registered pair and its schemas, and holds the
\* base schema and an error schema that no operation references
C15_Witness ==
    /\ last.kind = "buildOpenApiDoc"
    /\ ~last.threw
    /\ last.prev = "addDocRoute"
    /\ builds = 2
    /\ calls = 2
    /\ Cardinality(OpsOf(doc.paths)) = 2
    /\ \E n \in DOMAIN doc.components.schemas : n \notin ErrorName \cup BaseNames
    /\ BaseNames \subseteq DOMAIN doc.components.schemas
    /\ "UNKNOWN_ERROR" \in DOMAIN doc.components.schemas
    /\ \A pm \in OpsOf(doc.paths) :
           "#/components/schemas/UNKNOWN_ERROR" \notin RefsOfOp(OpAt(doc.paths, pm))

\* the registry names of the body and of a response of a route name
BodyName(name) == name \o ":body"

ResponseName(name, st) == name \o ":response" \o ToString(st)

\* the structure derived from a descriptor for its body (the body schema with
\* each file field of the descriptor in its field map, but for a file field
\* named __proto__, which is no field of the entry) and for a response
DerivedBody(d) ==
    LET base == Structure(d.body)
        named == {i \in 1..Len(d.fileFields) :
                     d.fileFields[i].name # ProtoField}
        lastOf(k) == CHOOSE i \in named :
                         /\ d.fileFields[i].name = k
                         /\ \A j \in named :
                                d.fileFields[j].name = k => j <= i
    IN  IF d.fileFields = <<>> THEN base
        ELSE [base EXCEPT !.properties =
                 [k \in DOMAIN base.properties
                        \cup {d.fileFields[i].name : i \in named} |->
                     IF \E i \in named : d.fileFields[i].name = k
                     THEN FileProperty(d.fileFields[lastOf(k)])
                     ELSE base.properties[k]]]

DerivedResponse(d, st) == Structure(d.responses[st].schema)

\* the statuses at which an operation references the response schema of its
\* own route name
OwnResponses(op, name) ==
    {st \in DOMAIN op.responses :
        ContentRefs(op.responses[st])
            = {"#/components/schemas/" \o ResponseName(name, st)}}

\* the registry entries referenced by the operation of a pair are the
\* structures derived from the descriptor d
EntriesDerivedFrom(pm, d) ==
    LET op == OpAt(paths, pm)
        name == compiledFrom[pm].name
    IN  /\ "requestBody" \in DOMAIN op =>
               /\ BodyName(name) \in DOMAIN schemas
               /\ schemas[BodyName(name)] = DerivedBody(d)
        /\ \A st \in OwnResponses(op, name) :
               /\ ResponseName(name, st) \in DOMAIN schemas
               /\ schemas[ResponseName(name, st)] = DerivedResponse(d, st)

\* C16 as stated: for every operation of the path table, the registry entries
\* its request body and its schema-bearing responses reference are the
\* structures derived from the descriptor that operation was compiled from.
C16_AsStated ==
    \A pm \in OpsOf(paths) : EntriesDerivedFrom(pm, compiledFrom[pm])

\* the registry names a registration of d stores for its body and responses
\* when it is made with Object.prototype as proto, whether or not it returns:
\* those of the schemas it reaches that register
StoredBy(d, proto) ==
    (IF ReachesBody(d, proto) /\ Registers(d.body, d.fileFields, proto)
     THEN {BodyName(d.name)} ELSE {})
    \cup {ResponseName(d.name, st) :
            st \in {c \in DOMAIN d.responses :
                       /\ ReachesResponse(d, c, proto)
                       /\ Registers(d.responses[c].schema, <<>>, proto)}}

\* the structure derived from d for the registry name k of its route name
DerivedFor(d, k) ==
    IF k = BodyName(d.name) THEN DerivedBody(d)
    ELSE DerivedResponse(d, CHOOSE st \in DOMAIN d.responses :
                                k = ResponseName(d.name, st))

\* the registry names the body and the schema-bearing responses of an
\* operation compiled for a route name reference
ReferencedBy(op, name) ==
    (IF "requestBody" \in DOMAIN op THEN {BodyName(name)} ELSE {})
    \cup {ResponseName(name, st) : st \in OwnResponses(op, name)}

\* C16 amended: a registration makes the entries referenced by the operation
\* it stores the structures derived from its own descriptor (for the body:
\* the body schema with its file fields as fields, but for a file field named
\* __proto__, which is no field of the entry), and it changes
\* the entry referenced by another operation of the table only when that
\* entry is one it stores itself, which requires the same route name; so the
\* entry an operation references is derived from the latest registration
\* under its route name that stored that entry, and from the operation's own
\* descriptor when route names are not shared between pairs.
C16_EntryFollowsLatestRegistrationOfName ==
    [][(last'.kind = "addDocRoute" /\ calls' = calls + 1) =>
         LET d == last'.params
             mine == PairOf(d)
         IN  /\ ~last'.threw =>
                    /\ compiledFrom'[mine] = d
                    /\ ReferencedBy(OpAfter(mine), d.name)
                          \subseteq StoredBy(d, objectPrototype)
                    /\ "requestBody" \in DOMAIN OpAfter(mine) =>
                           schemas'[BodyName(d.name)] = DerivedBody(d)
                    /\ \A st \in OwnResponses(OpAfter(mine), d.name) :
                           schemas'[ResponseName(d.name, st)]
                               = DerivedResponse(d, st)
             /\ \A pm \in OpsOf(paths) \ {mine} :
                    /\ pm \in OpsOf(paths')
                    /\ compiledFrom'[pm] = compiledFrom[pm]
                    /\ \A k \in ReferencedBy(OpAt(paths, pm),
                                             compiledFrom[pm].name) :
                           IF k \in StoredBy(d, objectPrototype)
                           THEN /\ compiledFrom[pm].name = d.name
                                /\ schemas'[k] = DerivedFor(d, k)
                           ELSE schemas'[k] = schemas[k]]_vars

\* two pairs of the table hold operations compiled under one route name, both
\* with a request body: the entry <name>:body both reference is the structure
\* derived from the descriptor registered last, which is not the structure
\* derived from the descriptor of the other operation; the descriptor
\* registered last has the file fields file and __proto__, and the entry has
\* the field file and no field __proto__
C16_Witness ==
    /\ Registered
    /\ calls = 2
    /\ FileNames(last.params.fileFields) = {"file", ProtoField}
    /\ "file" \in DOMAIN schemas[BodyName(last.params.name)].properties
    /\ ProtoField \notin DOMAIN schemas[BodyName(last.params.name)].properties
    /\ \E pm \in OpsOf(paths) \ {PairOf(last.params)} :
          /\ compiledFrom[pm].name = last.params.name
          /\ "requestBody" \in DOMAIN OpAt(paths, pm)
          /\ "requestBody" \in DOMAIN LastOp
          /\ schemas[BodyName(last.params.name)] = DerivedBody(last.params)
          /\ DerivedBody(compiledFrom[pm]) # DerivedBody(last.params)

\* the parameter schemas of a descriptor, by registry name
ParamSchemas(d) ==
    (d.name \o ":params" :> d.params) @@ (d.name \o ":query" :> d.query)
    @@ (d.name \o ":cookies" :> d.cookies)

\* the registry names a registration of d that returns has stored
AllStoredBy(d) ==
    {k \in DOMAIN ParamSchemas(d) :
        ParamSchemas(d)[k] # Undefined /\ ~FailsToRegister(ParamSchemas(d)[k])}
    \cup StoredBy(d, ObjectPrototype)

\* a call of addDocRoute reaches the extraction of the schema it stores under
\* k: no extraction before it has raised
ReachesParam(d, k, proto) ==
    LET order == <<d.name \o ":params", d.name \o ":query",
                   d.name \o ":cookies">>
        at == CHOOSE i \in 1..3 : order[i] = k
    IN  \A j \in 1..(at - 1) : ~Raises(ParamSchemas(d)[order[j]], <<>>, proto)

\* no call removes a name from the registry or a pair from the path table,
\* and a registration that overwrites the operation of a pair keeps every
\* name the overwritten registration had stored, with its entry unless the
\* new registration stores that name itself
OnlyGrow ==
    /\ DOMAIN schemas \subseteq DOMAIN schemas'
    /\ OpsOf(paths) \subseteq OpsOf(paths')
    /\ (last'.kind = "addDocRoute" /\ calls' = calls + 1 /\ ~last'.threw
        /\ PairOf(last'.params) \in OpsOf(paths)) =>
           \A k \in AllStoredBy(compiledFrom[PairOf(last'.params)]) :
               /\ k \in DOMAIN schemas
               /\ k \in DOMAIN schemas'
               /\ k \notin AllStoredBy(last'.params) =>
                      schemas'[k] = schemas[k]

\* C17 as stated: the registry names and the pairs of the path table only
\* grow, an overwritten registration keeps its schemas, and a registration
\* that returns has stored every path, query and cookie schema it was given
\* under <name>:params, <name>:query, <name>:cookies, also when the
\* extraction yields no parameter.
C17_EveryParameterSchemaStored ==
    [][/\ OnlyGrow
       /\ (last'.kind = "addDocRoute" /\ calls' = calls + 1 /\ ~last'.threw) =>
              \A k \in DOMAIN ParamSchemas(last'.params) :
                  ParamSchemas(last'.params)[k] # Undefined =>
                      k \in DOMAIN schemas']_vars

\* C17 amended: the registry names and the pairs of the path table only grow
\* and an overwritten registration keeps its schemas; a registration stores
\* each path, query and cookie schema whose conversion yields components
\* under <name>:params, <name>:query, <name>:cookies, also when the
\* extraction returns no parameter (a schema that is no object); a schema
\* whose conversion yields no components, or raises, or that the call does
\* not reach because an extraction before it raised, is not stored, and the
\* name then keeps the entry it had, if any.
C17_RegistryAndPathTableOnlyGrow ==
    [][/\ OnlyGrow
       /\ (last'.kind = "addDocRoute" /\ calls' = calls + 1) =>
              \A k \in DOMAIN ParamSchemas(last'.params) :
                  ParamSchemas(last'.params)[k] # Undefined =>
                      IF /\ ReachesParam(last'.params, k, objectPrototype)
                         /\ Registers(ParamSchemas(last'.params)[k], <<>>,
                                      objectPrototype)
                      THEN /\ k \in DOMAIN schemas'
                           /\ schemas'[k]
                                 = Structure(ParamSchemas(last'.params)[k])
                      ELSE /\ k \in DOMAIN schemas' <=> k \in DOMAIN schemas
                           /\ k \in DOMAIN schemas =>
                                  schemas'[k] = schemas[k]]_vars

\* the pair /{a} get, registered for findItem with a body, was overwritten by
\* a registration for getItem whose path schema converts but is not an
\* object and whose query schema yields no components: the table has that
\* one pair, its operation has no parameters, the registry holds
\* getItem:params, does not hold getItem:query, and still holds findItem:body
C17_Witness ==
    /\ Registered
    /\ calls = 2
    /\ last.params.name = "getItem"
    /\ last.params.params # Undefined
    /\ last.params.params.kind # "object"
    /\ FailsToRegister(last.params.query)
    /\ "getItem:query" \notin DOMAIN schemas
    /\ LastOp.parameters = <<>>
    /\ OpsOf(paths) = {PairOf(last.params)}
    /\ "getItem:params" \in DOMAIN schemas
    /\ "findItem:body" \in DOMAIN schemas
    /\ "#/components/schemas/findItem:body" \notin RefsOfOp(LastOp)

====
